---- MODULE Spec2Model ----
(***************************************************************************)
(* A model of find_photo_clusters.py: the duration parser                  *)
(* (parse_time_delta), the clustering scan (find_clusters) and the routing *)
(* of clusters to albums (main).                                           *)
(*                                                                         *)
(* Timestamps and durations are integers in one unit (a tick; in the       *)
(* parser and in main a tick is a millisecond).  A photo is a record       *)
(* [id, date]; the id is the photo's identity, date is None or a tick.     *)
(***************************************************************************)
EXTENDS Integers, Sequences, FiniteSets, TLC

VARIABLES
  pc,                 \* position of the running function
  photos,             \* find_clusters / main: the input list
  time_window,        \* find_clusters / main: the window
  sorted_photos,      \* find_clusters: valid photos, sorted by date
  i,                  \* find_clusters: outer cursor
  j,                  \* find_clusters: inner cursor
  current_cluster,    \* find_clusters: the candidate cluster
  cluster_end_time,   \* find_clusters: running end time of the candidate
  clusters,           \* find_clusters: emitted clusters; main: surviving ones
  used,               \* history: sorted positions used, as <<kind, position>>
  time_delta_str,     \* parse_time_delta: its argument, then the normalised text
  parts,              \* parse_time_delta: result of split(maxsplit=1)
  value,              \* parse_time_delta: float(parts[0])
  outcome,            \* parse_time_delta: what the call produced
  window,             \* main: the window text entered at the prompt
  album,              \* main: the album name entered at the prompt
  min_cluster_size,   \* main: the minimum cluster size entered at the prompt
  create_sub_albums,  \* main: sub-album mode
  albums,             \* the PhotosAlbum sink: one entry per album that was extended
  k,                  \* main: index of the sub-album loop (enumerate's i)
  exit_status         \* main: "running", "zero", "nonzero" or "traceback"

findVars  == <<photos, time_window, sorted_photos, i, j, current_cluster,
               cluster_end_time, clusters, used>>
parseVars == <<time_delta_str, parts, value, outcome>>
mainVars  == <<window, album, min_cluster_size, create_sub_albums, albums, k,
               exit_status>>
vars      == <<pc, findVars, parseVars, mainVars>>

-----------------------------------------------------------------------------
(* Bounds of the find_clusters model.                                      *)
MaxPhotos == 4
MaxTime   == 3
MaxWindow == 2

(* p.date is None *)
None == -1

Dates   == 0..MaxTime
Windows == (-1)..MaxWindow

Max(a, b) == IF a >= b THEN a ELSE b

(* Lists of at most n photos; the photo at input position p has id p. *)
PhotoLists(n, dates) ==
  UNION { { [p \in 1..len |-> [id |-> p, date |-> d[p]]] :
              d \in [1..len -> dates \cup {None}] } : len \in 0..n }

-----------------------------------------------------------------------------
(* find_clusters                                                           *)

(* [p for p in photos if p.date is not None] *)
ValidPhotos(ps) == SelectSeq(ps, LAMBDA p : p.date # None)

(* sorted(valid_photos, key=lambda p: p.date): Python's sort is stable, so
   photos of equal date keep their input order. *)
RECURSIVE InsertByDate(_, _)
InsertByDate(s, x) ==
  IF s = <<>> THEN <<x>>
  ELSE IF s[Len(s)].date <= x.date THEN Append(s, x)
  ELSE Append(InsertByDate(SubSeq(s, 1, Len(s) - 1), x), s[Len(s)])

RECURSIVE InsertionSort(_)
InsertionSort(s) ==
  IF s = <<>> THEN <<>>
  ELSE InsertByDate(InsertionSort(SubSeq(s, 1, Len(s) - 1)), s[Len(s)])

RECURSIVE Reversed(_)
Reversed(s) == IF s = <<>> THEN <<>> ELSE Append(Reversed(Tail(s)), Head(s))

SortedDescending(s) == Reversed(InsertionSort(s))
SortedUnsorted(s) == s
Sorted(s) == InsertionSort(s)

(* cluster_end_time = current_photo.date + time_window *)
SeedEndAbs(date, w) == date + (IF w < 0 THEN -w ELSE w)
SeedEnd(date, w) == date + w

(* while j < len(sorted_photos) and sorted_photos[j].date <= cluster_end_time
   (j is the 0-based Python index; sp[j + 1] is the same element) *)
InnerCondNoDate(sp, jj, end) == jj < Len(sp)
InnerCond(sp, jj, end) == jj < Len(sp) /\ sp[jj + 1].date <= end

(* cluster_end_time = max(cluster_end_time, next_photo.date + time_window) *)
ExtendEndFixed(end, date, w) == end
ExtendEnd(end, date, w) == Max(end, date + w)

(* i = j  # Skip to the first photo after this cluster *)
AfterEmitNext(ii, jj) == ii + 1
AfterEmit(ii, jj) == jj

(* i += 1  # Move to the next photo *)
AfterSkipStay(ii) == ii
AfterSkip(ii) == ii + 1

(* The whole call, as a function of its arguments: the inner while loop from
   state st = [j, cluster, end], then the outer while loop from [i, clusters]. *)
RECURSIVE InnerLoop(_, _, _)
InnerLoop(sp, w, st) ==
  IF InnerCond(sp, st.j, st.end)
  THEN InnerLoop(sp, w, [j       |-> st.j + 1,
                         cluster |-> Append(st.cluster, sp[st.j + 1]),
                         end     |-> ExtendEnd(st.end, sp[st.j + 1].date, w)])
  ELSE st

RECURSIVE OuterLoop(_, _, _, _)
OuterLoop(sp, w, ii, cs) ==
  IF ii < Len(sp)
  THEN LET st == InnerLoop(sp, w, [j       |-> ii + 1,
                                   cluster |-> <<sp[ii + 1]>>,
                                   end     |-> SeedEnd(sp[ii + 1].date, w)])
       IN IF Len(st.cluster) > 1
          THEN OuterLoop(sp, w, AfterEmit(ii, st.j), Append(cs, st.cluster))
          ELSE OuterLoop(sp, w, AfterSkip(ii), cs)
  ELSE cs

FindClusters(ps, w) ==
  IF ps = <<>> THEN <<>>
  ELSE IF ValidPhotos(ps) = <<>> THEN <<>>
  ELSE OuterLoop(Sorted(ValidPhotos(ps)), w, 0, <<>>)

(* The same call, one step at a time. *)
IdleParse == /\ time_delta_str = <<>> /\ parts = <<>>
             /\ value = [kind |-> "none"] /\ outcome = [kind |-> "none"]
IdleMain  == /\ window = <<>> /\ album = "" /\ min_cluster_size = 0
             /\ create_sub_albums = FALSE /\ albums = <<>> /\ k = 0
             /\ exit_status = "running"
IdleFind  == /\ photos = <<>> /\ time_window = 0 /\ sorted_photos = <<>>
             /\ i = 0 /\ j = 0 /\ current_cluster = <<>>
             /\ cluster_end_time = 0 /\ clusters = <<>> /\ used = <<>>

Init ==
  /\ pc = "call"
  /\ photos \in PhotoLists(MaxPhotos, Dates)
  /\ time_window \in Windows
  /\ sorted_photos = <<>> /\ i = 0 /\ j = 0 /\ current_cluster = <<>>
  /\ cluster_end_time = 0 /\ clusters = <<>> /\ used = <<>>
  /\ IdleParse /\ IdleMain

(* lines 54-68: the early returns, the filter, the sort, clusters = [], i = 0 *)
FindEmpty ==
  /\ pc = "call"
  /\ photos = <<>> \/ ValidPhotos(photos) = <<>>
  /\ pc' = "done"
  /\ UNCHANGED <<findVars, parseVars, mainVars>>

FindStart ==
  /\ pc = "call"
  /\ photos # <<>> /\ ValidPhotos(photos) # <<>>
  /\ sorted_photos' = Sorted(ValidPhotos(photos))
  /\ clusters' = <<>>
  /\ i' = 0
  /\ pc' = "outer"
  /\ UNCHANGED <<photos, time_window, j, current_cluster, cluster_end_time, used,
                 parseVars, mainVars>>

(* lines 72-83: the loop test holds; seed a candidate cluster *)
Seed ==
  /\ pc = "outer"
  /\ i < Len(sorted_photos)
  /\ current_cluster' = <<sorted_photos[i + 1]>>
  /\ cluster_end_time' = SeedEnd(sorted_photos[i + 1].date, time_window)
  /\ j' = i + 1
  /\ used' = Append(used, <<"seed", i>>)
  /\ pc' = "inner"
  /\ UNCHANGED <<photos, time_window, sorted_photos, i, clusters, parseVars, mainVars>>

(* lines 72, 104: the loop test fails; return clusters *)
Return ==
  /\ pc = "outer"
  /\ ~(i < Len(sorted_photos))
  /\ pc' = "done"
  /\ UNCHANGED <<findVars, parseVars, mainVars>>

(* lines 84-93: one iteration of the inner loop *)
AppendNext ==
  /\ pc = "inner"
  /\ InnerCond(sorted_photos, j, cluster_end_time)
  /\ current_cluster' = Append(current_cluster, sorted_photos[j + 1])
  /\ cluster_end_time' =
       ExtendEnd(cluster_end_time, sorted_photos[j + 1].date, time_window)
  /\ j' = j + 1
  /\ used' = Append(used, <<"append", j>>)
  /\ UNCHANGED <<pc, photos, time_window, sorted_photos, i, clusters, parseVars,
                 mainVars>>

(* line 84: the inner loop test fails *)
InnerExit ==
  /\ pc = "inner"
  /\ ~InnerCond(sorted_photos, j, cluster_end_time)
  /\ pc' = "decide"
  /\ UNCHANGED <<findVars, parseVars, mainVars>>

(* lines 96-99 *)
Emit ==
  /\ pc = "decide"
  /\ Len(current_cluster) > 1
  /\ clusters' = Append(clusters, current_cluster)
  /\ i' = AfterEmit(i, j)
  /\ pc' = "outer"
  /\ UNCHANGED <<photos, time_window, sorted_photos, j, current_cluster,
                 cluster_end_time, used, parseVars, mainVars>>

(* lines 100-102 *)
Skip ==
  /\ pc = "decide"
  /\ ~(Len(current_cluster) > 1)
  /\ i' = AfterSkip(i)
  /\ pc' = "outer"
  /\ UNCHANGED <<photos, time_window, sorted_photos, j, current_cluster,
                 cluster_end_time, clusters, used, parseVars, mainVars>>

Next ==
  \/ FindEmpty
  \/ FindStart
  \/ Seed
  \/ Return
  \/ AppendNext
  \/ InnerExit
  \/ Emit
  \/ Skip

Spec == Init /\ [][Next]_vars

-----------------------------------------------------------------------------
(* parse_time_delta                                                        *)
(*                                                                         *)
(* A text is a sequence of one-character strings.  A duration is a number  *)
(* of ticks of one millisecond; the texts of the model have at most three  *)
(* fractional digits, so no duration is rounded.                           *)

UpperCase == <<"A", "B", "C", "D", "E", "F", "G", "H", "I", "J", "K", "L", "M",
               "N", "O", "P", "Q", "R", "S", "T", "U", "V", "W", "X", "Y", "Z">>
LowerCase == <<"a", "b", "c", "d", "e", "f", "g", "h", "i", "j", "k", "l", "m",
               "n", "o", "p", "q", "r", "s", "t", "u", "v", "w", "x", "y", "z">>
WhiteSpace == {" ", "\t"}
Digits == <<"0", "1", "2", "3", "4", "5", "6", "7", "8", "9">>

IsDigit(c) == \E d \in 1..10 : Digits[d] = c
DigitValue(c) == (CHOOSE d \in 1..10 : Digits[d] = c) - 1

(* str.lower() *)
LowerChar(c) ==
  IF \E x \in 1..26 : UpperCase[x] = c
  THEN LowerCase[CHOOSE x \in 1..26 : UpperCase[x] = c]
  ELSE c

Lower(t) == [x \in 1..Len(t) |-> LowerChar(t[x])]

(* str.strip() *)
RECURSIVE LStrip(_)
LStrip(t) == IF t # <<>> /\ Head(t) \in WhiteSpace THEN LStrip(Tail(t)) ELSE t

RECURSIVE RStrip(_)
RStrip(t) ==
  IF t # <<>> /\ t[Len(t)] \in WhiteSpace
  THEN RStrip(SubSeq(t, 1, Len(t) - 1)) ELSE t

Strip(t) == LStrip(RStrip(t))

(* length of the longest prefix of t without whitespace *)
RECURSIVE TokenLen(_)
TokenLen(t) ==
  IF t = <<>> \/ Head(t) \in WhiteSpace THEN 0 ELSE 1 + TokenLen(Tail(t))

(* str.split(maxsplit=1): the first whitespace-separated token and, when
   anything but whitespace follows it, the rest of the text from there on *)
Split1(t) ==
  LET body  == LStrip(t)
      n     == TokenLen(body)
      rest  == LStrip(SubSeq(body, n + 1, Len(body)))
  IN IF body = <<>> THEN <<>>
     ELSE IF rest = <<>> THEN << SubSeq(body, 1, n) >>
     ELSE << SubSeq(body, 1, n), rest >>

(* number of digits of t from position x on *)
RECURSIVE DigitRun(_, _)
DigitRun(t, x) ==
  IF x <= Len(t) /\ IsDigit(t[x]) THEN 1 + DigitRun(t, x + 1) ELSE 0

RECURSIVE DigitsToNat(_)
DigitsToNat(t) ==
  IF t = <<>> THEN 0
  ELSE 10 * DigitsToNat(SubSeq(t, 1, Len(t) - 1)) + DigitValue(t[Len(t)])

HasSign(t) == t # <<>> /\ t[1] \in {"+", "-"}
SignOf(t) == IF t # <<>> /\ t[1] = "-" THEN -1 ELSE 1
Unsigned(t) == IF HasSign(t) THEN Tail(t) ELSE t

(* float(text) for a text without surrounding whitespace, digit-group
   underscores or non-ASCII digits: a decimal literal
   [sign] (digits [. [digits]] | . digits) [e [sign] digits], or
   [sign] inf | infinity | nan.  A finite value is sign * m * 10^e. *)
ParseFloat(t) ==
  LET body    == Unsigned(t)
      ni      == DigitRun(body, 1)
      hasDot  == ni < Len(body) /\ body[ni + 1] = "."
      nf      == IF hasDot THEN DigitRun(body, ni + 2) ELSE 0
      mantLen == ni + (IF hasDot THEN 1 + nf ELSE 0)
      intPart == SubSeq(body, 1, ni)
      fraPart == SubSeq(body, ni + 2, ni + 1 + nf)
      rest    == SubSeq(body, mantLen + 1, Len(body))
      expText == Unsigned(Tail(rest))
      expOK   == \/ rest = <<>>
                 \/ /\ rest[1] = "e"
                    /\ expText # <<>>
                    /\ DigitRun(expText, 1) = Len(expText)
      exp     == IF rest = <<>> THEN 0
                 ELSE SignOf(Tail(rest)) * DigitsToNat(expText)
  IN IF body \in { <<"i", "n", "f">>,
                   <<"i", "n", "f", "i", "n", "i", "t", "y">> }
     THEN [kind |-> "inf", sign |-> SignOf(t)]
     ELSE IF body = <<"n", "a", "n">> THEN [kind |-> "nan"]
     ELSE IF ni + nf > 0 /\ expOK
     THEN [kind |-> "finite", sign |-> SignOf(t),
           m |-> DigitsToNat(intPart \o fraPart), e |-> exp - nf]
     ELSE [kind |-> "invalid"]

StartsWith(t, prefix) ==
  Len(t) >= Len(prefix) /\ SubSeq(t, 1, Len(prefix)) = prefix

(* unit = parts[1] if len(parts) > 1 else "" *)
UnitOf(ps) == IF Len(ps) > 1 THEN ps[2] ELSE <<>>

(* the if / elif chain on the unit: which keyword timedelta is called with *)
KeywordNoHr(u) ==
  IF StartsWith(u, <<"s", "e", "c">>) THEN "seconds"
  ELSE IF StartsWith(u, <<"m", "i", "n">>) THEN "minutes"
  ELSE IF StartsWith(u, <<"h", "o", "u", "r">>) THEN "hours"
  ELSE "seconds"

Keyword(u) ==
  IF StartsWith(u, <<"s", "e", "c">>) THEN "seconds"
  ELSE IF StartsWith(u, <<"m", "i", "n">>) THEN "minutes"
  ELSE IF StartsWith(u, <<"h", "o", "u", "r">>) \/ StartsWith(u, <<"h", "r">>)
  THEN "hours"
  ELSE "seconds"

RECURSIVE Pow10(_)
Pow10(n) == IF n = 0 THEN 1 ELSE 10 * Pow10(n - 1)

SecondsPer(kw) ==
  CASE kw = "seconds" -> 1 [] kw = "minutes" -> 60 [] kw = "hours" -> 3600

(* whether q * 10^e seconds is 86400 * 10^9 seconds (10^9 days) or more, for
   0 <= q < 8640000: a timedelta holds at most 999999999 days either way.
   (Below zero the limit is 86400 seconds nearer; no q * 10^e lies between.) *)
ExceedsDays(q, e) ==
  IF e >= 14 THEN q > 0
  ELSE IF e >= 11 THEN q * Pow10(e - 11) >= 864
  ELSE IF e >= 8 THEN q >= 864 * Pow10(11 - e)
  ELSE FALSE

(* datetime.timedelta(<kw>=v) for a float v *)
TimeDelta(kw, v) ==
  IF v.kind = "nan" THEN [kind |-> "raised", error |-> "ValueError"]
  ELSE IF v.kind = "inf" THEN [kind |-> "raised", error |-> "OverflowError"]
  ELSE IF ExceedsDays(v.m * SecondsPer(kw), v.e)
  THEN [kind |-> "raised", error |-> "OverflowError"]
  ELSE [kind |-> "timedelta",
        ms |-> v.sign * v.m * SecondsPer(kw) * Pow10(v.e + 3)]

(* The whole call, as a function of its argument. *)
ParseTimeDelta(text) ==
  LET ps == Split1(Strip(Lower(text)))
  IN IF Len(ps) = 0 THEN [kind |-> "raised", error |-> "ValueError"]
     ELSE IF ParseFloat(ps[1]).kind = "invalid"
     THEN [kind |-> "raised", error |-> "ValueError"]
     ELSE TimeDelta(Keyword(UnitOf(ps)), ParseFloat(ps[1]))

(* The texts the parser is run on: padding, a number, a separator, a unit,
   padding. *)
NumberTexts ==
  { <<>>,
    <<"4", "5">>,
    <<"9", "0">>,
    <<"1", ".", "5">>,
    <<"2">>,
    <<"-", "3">>,
    <<"+", "1">>,
    <<"0">>,
    <<".", "5">>,
    <<"7", ".">>,
    <<"0", ".", "2", "5">>,
    <<"1", "e", "2">>,
    <<"1", "E", "2">>,
    <<"2", ".", "5", "e", "2">>,
    <<"1", "5", "e", "-", "1">>,
    <<"1", "e", "1", "4">>,
    <<"-", "1", "e", "1", "4">>,
    <<"8", "6", "4", "e", "1", "1">>,
    <<"i", "n", "f">>,
    <<"-", "i", "n", "f">>,
    <<"I", "N", "F">>,
    <<"i", "n", "f", "i", "n", "i", "t", "y">>,
    <<"n", "a", "n">>,
    <<"N", "a", "N">>,
    <<"a", "b", "c">>,
    <<"1", ".", "5", ".", "2">>,
    <<"e", "5">>,
    <<"1", "e">>,
    <<"-">>,
    <<"1", ",", "5">> }

UnitTexts ==
  { <<>>,
    <<"s", "e", "c">>,
    <<"s", "e", "c", "o", "n", "d", "s">>,
    <<"s">>,
    <<"m", "i", "n">>,
    <<"m", "i", "n", "u", "t", "e", "s">>,
    <<"m", "i", "n", "s">>,
    <<"m">>,
    <<"h", "o", "u", "r">>,
    <<"h", "o", "u", "r", "s">>,
    <<"h", "r">>,
    <<"h", "r", "s">>,
    <<"h">>,
    <<"x", "y", "z">>,
    <<"M", "I", "N">>,
    <<"H", "o", "u", "r", "s">>,
    <<"m", "i", "n", " ", "s", "e", "c">>,
    <<"s", "e", "c", "o", "n", "d">>,
    <<"m", "s", "e", "c">> }

Paddings   == { <<>>, <<" ">> }
Separators == { <<>>, <<" ">>, <<" ", " ">>, <<"\t">> }

WindowTexts ==
  { a \o n \o b \o u \o c :
      a \in Paddings, n \in NumberTexts, b \in Separators, u \in UnitTexts,
      c \in Paddings }

InitParse ==
  /\ pc = "parse_call"
  /\ window \in WindowTexts
  /\ time_delta_str = window
  /\ parts = <<>> /\ value = [kind |-> "none"] /\ outcome = [kind |-> "none"]
  /\ album = "" /\ min_cluster_size = 0 /\ create_sub_albums = FALSE
  /\ albums = <<>> /\ k = 0 /\ exit_status = "running"
  /\ IdleFind

(* line 24 *)
ParseNormalise ==
  /\ pc = "parse_call"
  /\ time_delta_str' = Strip(Lower(time_delta_str))
  /\ pc' = "parse_split"
  /\ UNCHANGED <<parts, value, outcome, findVars, mainVars>>

(* line 27 *)
ParseSplit ==
  /\ pc = "parse_split"
  /\ parts' = Split1(time_delta_str)
  /\ pc' = "parse_parts"
  /\ UNCHANGED <<time_delta_str, value, outcome, findVars, mainVars>>

(* lines 29-30 *)
ParseNoParts ==
  /\ pc = "parse_parts"
  /\ Len(parts) = 0
  /\ outcome' = [kind |-> "raised", error |-> "ValueError"]
  /\ pc' = "parse_raised"
  /\ UNCHANGED <<time_delta_str, parts, value, findVars, mainVars>>

(* lines 32-34: float(parts[0]) returns *)
ParseFloatOK ==
  /\ pc = "parse_parts"
  /\ Len(parts) # 0
  /\ ParseFloat(parts[1]).kind # "invalid"
  /\ value' = ParseFloat(parts[1])
  /\ pc' = "parse_unit"
  /\ UNCHANGED <<time_delta_str, parts, outcome, findVars, mainVars>>

(* lines 32-36: float(parts[0]) raises ValueError, which is raised again *)
ParseFloatFails ==
  /\ pc = "parse_parts"
  /\ Len(parts) # 0
  /\ ParseFloat(parts[1]).kind = "invalid"
  /\ outcome' = [kind |-> "raised", error |-> "ValueError"]
  /\ pc' = "parse_raised"
  /\ UNCHANGED <<time_delta_str, parts, value, findVars, mainVars>>

(* lines 38-49: the timedelta is built and returned *)
ParseReturn ==
  /\ pc = "parse_unit"
  /\ TimeDelta(Keyword(UnitOf(parts)), value).kind = "timedelta"
  /\ outcome' = TimeDelta(Keyword(UnitOf(parts)), value)
  /\ pc' = "parse_returned"
  /\ UNCHANGED <<time_delta_str, parts, value, findVars, mainVars>>

(* lines 38-49: the timedelta constructor raises; nothing here catches it *)
ParseTimeDeltaRaises ==
  /\ pc = "parse_unit"
  /\ TimeDelta(Keyword(UnitOf(parts)), value).kind = "raised"
  /\ outcome' = TimeDelta(Keyword(UnitOf(parts)), value)
  /\ pc' = "parse_raised"
  /\ UNCHANGED <<time_delta_str, parts, value, findVars, mainVars>>

NextParse ==
  \/ ParseNormalise
  \/ ParseSplit
  \/ ParseNoParts
  \/ ParseFloatOK
  \/ ParseFloatFails
  \/ ParseReturn
  \/ ParseTimeDeltaRaises

SpecParse == InitParse /\ [][NextParse]_vars

-----------------------------------------------------------------------------
(* main                                                                    *)

(* Bounds of the main model. *)
MainMaxPhotos  == 4
MaxMinSize     == 3

MainDates == {0, 1500, 1999}

MainWindowTexts ==
  { <<>>, <<"a", "b", "c", " ", "m", "i", "n">>, <<"0">>, <<"-", "1">>,
    <<"1", " ", "s", "e", "c">>, <<".", "0", "5", " ", "M", "i", "n">>,
    <<"i", "n", "f">> }

(* clusters = [cluster for cluster in clusters if len(cluster) >= min_cluster_size] *)
KeepClusterStrict(c, m) == Len(c) > m
KeepCluster(c, m) == Len(c) >= m

(* min(p.date for p in cluster) *)
RECURSIVE MinDate(_)
MinDate(c) ==
  IF Len(c) = 1 THEN c[1].date
  ELSE LET rest == MinDate(Tail(c))
       IN IF c[1].date <= rest THEN c[1].date ELSE rest

(* cluster_start.strftime('%Y-%m-%d %H:%M:%S'): the date to the second *)
Strftime(date) == date \div 1000

(* f"{album}/Cluster {i+1} ({cluster_start.strftime(...)})", by its parts *)
SubAlbumPath(parent, index, c) ==
  [parent |-> parent, cluster |-> index + 1, start |-> Strftime(MinDate(c))]

(* [photo for cluster in clusters for photo in cluster] *)
RECURSIVE Flatten(_)
Flatten(cs) == IF cs = <<>> THEN <<>> ELSE Head(cs) \o Flatten(Tail(cs))

InitMain ==
  /\ pc = "main_parse"
  /\ photos \in PhotoLists(MainMaxPhotos, MainDates)
  /\ window \in MainWindowTexts
  /\ album \in {"Photo Clusters"}
  /\ min_cluster_size \in 1..MaxMinSize
  /\ create_sub_albums \in BOOLEAN
  /\ albums = <<>> /\ k = 0 /\ exit_status = "running"
  /\ time_window = 0 /\ sorted_photos = <<>> /\ i = 0 /\ j = 0
  /\ current_cluster = <<>> /\ cluster_end_time = 0 /\ clusters = <<>>
  /\ used = <<>>
  /\ IdleParse

(* lines 138-139: parse_time_delta returns *)
MainParsed ==
  /\ pc = "main_parse"
  /\ ParseTimeDelta(window).kind = "timedelta"
  /\ time_window' = ParseTimeDelta(window).ms
  /\ pc' = "main_find"
  /\ UNCHANGED <<photos, sorted_photos, i, j, current_cluster, cluster_end_time,
                 clusters, used, parseVars, mainVars>>

(* lines 140-142: ValueError is caught, reported, sys.exit(1) *)
MainParseError ==
  /\ pc = "main_parse"
  /\ ParseTimeDelta(window) = [kind |-> "raised", error |-> "ValueError"]
  /\ exit_status' = "nonzero"
  /\ pc' = "main_exit"
  /\ UNCHANGED <<findVars, parseVars, window, album, min_cluster_size,
                 create_sub_albums, albums, k>>

(* lines 138-140: any other exception leaves main *)
MainParseUncaught ==
  /\ pc = "main_parse"
  /\ ParseTimeDelta(window).kind = "raised"
  /\ ParseTimeDelta(window).error # "ValueError"
  /\ exit_status' = "traceback"
  /\ pc' = "main_exit"
  /\ UNCHANGED <<findVars, parseVars, window, album, min_cluster_size,
                 create_sub_albums, albums, k>>

(* lines 145-150: find the clusters, keep those of the minimum size *)
MainFind ==
  /\ pc = "main_find"
  /\ clusters' = SelectSeq(FindClusters(photos, time_window),
                           LAMBDA c : KeepCluster(c, min_cluster_size))
  /\ pc' = "main_route"
  /\ UNCHANGED <<photos, time_window, sorted_photos, i, j, current_cluster,
                 cluster_end_time, used, parseVars, mainVars>>

(* lines 152-154 *)
MainNoClusters ==
  /\ pc = "main_route"
  /\ clusters = <<>>
  /\ exit_status' = "zero"
  /\ pc' = "main_exit"
  /\ UNCHANGED <<findVars, parseVars, window, album, min_cluster_size,
                 create_sub_albums, albums, k>>

(* lines 168-182: one iteration of the sub-album loop *)
MainSubAlbum ==
  /\ pc = "main_route"
  /\ clusters # <<>>
  /\ create_sub_albums
  /\ k < Len(clusters)
  /\ albums' = Append(albums, [path   |-> SubAlbumPath(album, k, clusters[k + 1]),
                               photos |-> clusters[k + 1]])
  /\ k' = k + 1
  /\ UNCHANGED <<pc, findVars, parseVars, window, album, min_cluster_size,
                 create_sub_albums, exit_status>>

(* lines 171, 191-194: the loop is over *)
MainSubAlbumsDone ==
  /\ pc = "main_route"
  /\ clusters # <<>>
  /\ create_sub_albums
  /\ ~(k < Len(clusters))
  /\ exit_status' = "zero"
  /\ pc' = "main_exit"
  /\ UNCHANGED <<findVars, parseVars, window, album, min_cluster_size,
                 create_sub_albums, albums, k>>

(* lines 184-194 *)
MainSingleAlbum ==
  /\ pc = "main_route"
  /\ clusters # <<>>
  /\ ~create_sub_albums
  /\ albums' = Append(albums, [path |-> [parent |-> album],
                               photos |-> Flatten(clusters)])
  /\ exit_status' = "zero"
  /\ pc' = "main_exit"
  /\ UNCHANGED <<findVars, parseVars, window, album, min_cluster_size,
                 create_sub_albums, k>>

NextMain ==
  \/ MainParsed
  \/ MainParseError
  \/ MainParseUncaught
  \/ MainFind
  \/ MainNoClusters
  \/ MainSubAlbum
  \/ MainSubAlbumsDone
  \/ MainSingleAlbum

SpecMain == InitMain /\ [][NextMain]_vars

-----------------------------------------------------------------------------
(* Properties of find_clusters                                             *)

Range(s) == { s[x] : x \in 1..Len(s) }

NonDecreasing(s) == \A x \in 1..(Len(s) - 1) : s[x].date <= s[x + 1].date

(* sp holds exactly the photos of ps that have a date, in ascending date order *)
IsSortedValid(sp, ps) ==
  /\ NonDecreasing(sp)
  /\ Range(sp) = { p \in Range(ps) : p.date # None }
  /\ Len(sp) = Cardinality(Range(sp))

(* the sorted neighbours at positions a and a + 1 are at most w apart *)
Linked(sp, a, w) == sp[a + 1].date - sp[a].date <= w

(* positions a..b of sp are a maximal run under window w *)
IsRun(sp, a, b, w) ==
  /\ a <= b
  /\ \A x \in a..(b - 1) : Linked(sp, x, w)
  /\ a = 1 \/ ~Linked(sp, a - 1, w)
  /\ b = Len(sp) \/ ~Linked(sp, b, w)

Runs(sp, w) ==
  { r \in (1..Len(sp)) \X (1..Len(sp)) : IsRun(sp, r[1], r[2], w) /\ r[2] > r[1] }

InSomeCluster(cs, p) == \E c \in 1..Len(cs) : p \in Range(cs[c])

(* C1: for a window >= 0 the result is exactly the maximal runs, of length
   >= 2, of the date-sorted photos that have a date: every such run is a
   cluster, every cluster is such a run (so it cannot be extended by the
   sorted photo just before or just after it), and a photo is in no cluster
   only if both its sorted neighbours are strictly more than the window away. *)
C1_MaximalRuns ==
  (pc = "done" /\ time_window >= 0) =>
    LET sp == sorted_photos
        w  == time_window
    IN /\ IsSortedValid(sp, photos)
       /\ Len(clusters) = Cardinality(Runs(sp, w))
       /\ \A r \in Runs(sp, w) :
            \E c \in 1..Len(clusters) : clusters[c] = SubSeq(sp, r[1], r[2])
       /\ \A c \in 1..Len(clusters) :
            \E r \in Runs(sp, w) : clusters[c] = SubSeq(sp, r[1], r[2])
       /\ \A x \in 1..Len(sp) :
            ~InSomeCluster(clusters, sp[x]) =>
              /\ x = 1 \/ ~Linked(sp, x - 1, w)
              /\ x = Len(sp) \/ ~Linked(sp, x, w)

(* a run of three or more, a photo left out, and a window that is not zero *)
C1_Witness ==
  /\ pc = "done" /\ time_window > 0
  /\ Len(clusters) = 1 /\ Len(clusters[1]) = 3
  /\ Len(sorted_photos) = 4
  /\ sorted_photos[3].date - sorted_photos[1].date > time_window

(* where in the clusters the photo p occurs *)
Occurrences(cs, p) ==
  { o \in (1..Len(cs)) \X (1..MaxPhotos + 1) :
      o[2] <= Len(cs[o[1]]) /\ cs[o[1]][o[2]] = p }

(* C2: the clusters are pairwise disjoint; an input photo without a date is
   in no cluster, every other input photo is in exactly one cluster or in
   none; a cluster holds input photos only. *)
C2_Partition ==
  /\ \A x \in 1..Len(photos) :
       /\ Cardinality(Occurrences(clusters, photos[x])) <= 1
       /\ photos[x].date = None => Occurrences(clusters, photos[x]) = {}
  /\ \A c \in 1..Len(clusters) : Range(clusters[c]) \subseteq Range(photos)
  /\ \A c, d \in 1..Len(clusters) :
       c # d => Range(clusters[c]) \cap Range(clusters[d]) = {}

(* two clusters side by side; and one cluster beside a photo without a date
   and a photo that is in no cluster *)
C2_Witness ==
  /\ pc = "done" /\ Len(clusters) = 2
  /\ Len(clusters[1]) = 2 /\ Len(clusters[2]) = 2

C2_WitnessNull ==
  /\ pc = "done" /\ Len(clusters) = 1
  /\ \E x \in 1..Len(photos) : photos[x].date = None
  /\ \E x \in 1..Len(sorted_photos) : ~InSomeCluster(clusters, sorted_photos[x])

(* positions of cl reachable from the positions in seen by steps between
   photos whose dates differ by no more than w *)
RECURSIVE Reach(_, _, _)
Reach(cl, w, seen) ==
  LET more == { y \in 1..Len(cl) :
                  \E x \in seen : /\ cl[y].date - cl[x].date <= w
                                  /\ cl[x].date - cl[y].date <= w }
  IN IF more \subseteq seen THEN seen ELSE Reach(cl, w, seen \cup more)

ChainLinked(cl, w) ==
  /\ \A q \in 2..Len(cl) : \E r \in 1..(q - 1) : cl[r].date + w >= cl[q].date
  /\ \A a \in 1..Len(cl) : Reach(cl, w, {a}) = 1..Len(cl)

(* C3: in the candidate cluster after every append, and in every emitted
   cluster, each photo after the first has an earlier photo of the cluster
   whose date plus the window is >= its date, and any two photos of the
   cluster are joined by a path of photos of the cluster whose consecutive
   dates differ by no more than the window. *)
C3_ChainWindow ==
  /\ ChainLinked(current_cluster, time_window)
  /\ \A c \in 1..Len(clusters) : ChainLinked(clusters[c], time_window)

(* a cluster of four whose span is three times the window *)
C3_Witness ==
  /\ pc = "done" /\ time_window > 0 /\ Len(clusters) = 1
  /\ Len(clusters[1]) = 4
  /\ clusters[1][4].date - clusters[1][1].date >= 3 * time_window

(* C4: each cluster is in ascending date order, the clusters are listed in
   ascending order of their first photo's date, and every photo of an
   earlier cluster is no later than every photo of a later cluster. *)
C4_Order ==
  /\ \A c \in 1..Len(clusters) : NonDecreasing(clusters[c])
  /\ \A c, d \in 1..Len(clusters) :
       c < d =>
         /\ clusters[c][1].date <= clusters[d][1].date
         /\ \A p \in Range(clusters[c]) : \A q \in Range(clusters[d]) :
              p.date <= q.date

(* two clusters found in an input list that was in descending date order *)
C4_Witness ==
  /\ pc = "done" /\ Len(clusters) = 2 /\ Len(photos) = 4
  /\ \A x \in 1..3 : photos[x].date >= photos[x + 1].date
  /\ photos[1].date > photos[4].date

Abs(x) == IF x < 0 THEN -x ELSE x

DegenerateCluster(cl, w) ==
  /\ w = 0 => \A p, q \in Range(cl) : p.date = q.date
  /\ w < 0 => \A q \in 2..Len(cl) :
                \E r \in 1..(q - 1) : cl[q].date <= cl[r].date - Abs(w)

(* C5: with a zero window every cluster (and the candidate being built)
   consists of photos of one identical date; with a negative window a photo
   joins a cluster only if its date is <= an earlier member's date minus
   |window|.  The photos are scanned in ascending date order, so under a
   negative window no photo ever joins and no cluster is emitted. *)
C5_DegenerateWindow ==
  /\ DegenerateCluster(current_cluster, time_window)
  /\ \A c \in 1..Len(clusters) : DegenerateCluster(clusters[c], time_window)
  /\ time_window < 0 => clusters = <<>> /\ Len(current_cluster) <= 1

(* zero window: photos of equal date clustered, a photo of another date not;
   the negative-window case is the done state with equal dates, no cluster *)
C5_Witness ==
  /\ pc = "done" /\ time_window = 0 /\ Len(clusters) = 1
  /\ Len(sorted_photos) > Len(clusters[1])

C5_WitnessNegative ==
  /\ pc = "done" /\ time_window < 0 /\ clusters = <<>>
  /\ \E x \in 1..(Len(sorted_photos) - 1) :
       sorted_photos[x].date = sorted_photos[x + 1].date

Seeds == SelectSeq(used, LAMBDA u : u[1] = "seed")

(* a measure that every step of the scan decreases *)
Rank ==
  3 * (Len(sorted_photos) - i) + (Len(sorted_photos) - j)
    + (CASE pc = "outer" -> 2 [] pc = "inner" -> 2 [] pc = "decide" -> 1
         [] OTHER -> 0)

ScanOK ==
  /\ 0 <= i /\ i <= Len(sorted_photos)
  /\ 0 <= j /\ j <= Len(sorted_photos)
  /\ \A x, y \in 1..Len(used) : x < y => used[x][2] < used[y][2]
  /\ Len(Seeds) <= Len(sorted_photos)
  /\ pc = "done" \/ ENABLED Next

(* C9: the scan terminates.  Every step keeps both cursors within
   0..len(sorted_photos); i never decreases and strictly increases in every
   outer iteration (to j > i after an emit, to i + 1 otherwise); j never
   decreases; the sorted positions used as a seed or appended are strictly
   increasing, so none is used twice and there are at most n outer
   iterations; a step is possible until the function has returned, and every
   step of the scan decreases a non-negative measure. *)
C9_Terminates ==
  [][ /\ pc \in {"outer", "inner", "decide"} => (ScanOK /\ Rank >= 0)
      /\ pc' \in {"outer", "inner", "decide", "done"} => ScanOK'
      /\ i' >= i /\ j' >= j
      /\ pc = "decide" => i' > i
      /\ (pc = "decide" /\ Len(current_cluster) > 1) => (i' = j /\ j > i)
      /\ (pc = "decide" /\ Len(current_cluster) <= 1) => i' = i + 1
      /\ (pc \in {"outer", "inner", "decide"}) => Rank' < Rank
    ]_vars

(* a negative-window scan that went through every position and returned *)
C9_Witness ==
  /\ pc = "done" /\ time_window < 0
  /\ Len(sorted_photos) = MaxPhotos /\ Len(Seeds) = MaxPhotos

C9_WitnessEmit ==
  /\ pc = "done" /\ Len(clusters) = 2 /\ Len(Seeds) = 2

AsSets(cs) == [c \in 1..Len(cs) |-> Range(cs[c])]

Permuted(ps) ==
  { [x \in 1..Len(ps) |-> ps[f[x]]] : f \in Permutations(1..Len(ps)) }

(* C10: every permutation of the input list gives the same clusters, as
   sets of photos, in the same order; photos of equal date are never split
   between a cluster and its outside. *)
C10_OrderIndependent ==
  pc = "done" =>
    /\ \A qs \in Permuted(photos) :
         AsSets(FindClusters(qs, time_window)) = AsSets(clusters)
    /\ \A c \in 1..Len(clusters) : \A p \in Range(clusters[c]) :
         \A q \in Range(photos) : q.date = p.date => q \in Range(clusters[c])

(* equal dates inside a cluster, given in an order the sort has to change *)
C10_Witness ==
  /\ pc = "done" /\ Len(clusters) = 1 /\ Len(photos) = 4
  /\ clusters[1][1].date = clusters[1][2].date
  /\ photos[1].date > photos[2].date
  /\ \E x \in 1..Len(photos) : ~InSomeCluster(clusters, photos[x])

-----------------------------------------------------------------------------
(* Properties of parse_time_delta                                          *)

(* the tokens of the trimmed, lowercased argument *)
Tokens == Split1(Strip(Lower(window)))

ParseEnded == pc \in {"parse_returned", "parse_raised"}

(* C6: the call raises ValueError (the ParseError) exactly when the argument
   has no token or its first token is not a number, and returns a duration
   for every other argument. *)
C6_ParseErrorExactly ==
  ParseEnded =>
    IF Len(Tokens) = 0 \/ ParseFloat(Tokens[1]).kind # "finite"
    THEN outcome = [kind |-> "raised", error |-> "ValueError"]
    ELSE outcome.kind = "timedelta"

(* What the code does: ValueError for no token, a first token float()
   rejects, or nan; OverflowError for an infinity or a magnitude of 10^9 days
   or more; a duration otherwise. *)
ParseOutcomes ==
  ParseEnded =>
    LET v == ParseFloat(Tokens[1])
    IN IF Len(Tokens) = 0 \/ v.kind \in {"invalid", "nan"}
       THEN outcome = [kind |-> "raised", error |-> "ValueError"]
       ELSE IF v.kind = "inf"
               \/ ExceedsDays(v.m * SecondsPer(Keyword(UnitOf(Tokens))), v.e)
       THEN outcome = [kind |-> "raised", error |-> "OverflowError"]
       ELSE outcome.kind = "timedelta"

(* the claim's table of units, in seconds *)
UnitSeconds(u) ==
  IF StartsWith(u, <<"s", "e", "c">>) THEN 1
  ELSE IF StartsWith(u, <<"m", "i", "n">>) THEN 60
  ELSE IF StartsWith(u, <<"h", "o", "u", "r">>) THEN 3600
  ELSE IF StartsWith(u, <<"h", "r">>) THEN 3600
  ELSE 1

Returns(text, ms) ==
  (ParseEnded /\ window = text) => outcome = [kind |-> "timedelta", ms |-> ms]

(* C7: a returned duration is the number v of the first token times the unit
   the rest of the text starts with: seconds for "sec", minutes for "min",
   hours for "hour" or "hr", seconds for any other or no unit; "90 sec" and
   "1.5 min" both give 90 seconds, "45" gives 45 seconds and "2 hrs" 7200
   seconds. *)
C7_UnitResolution ==
  /\ pc = "parse_returned" =>
       LET v == ParseFloat(Tokens[1])
           u == IF Len(Tokens) > 1 THEN Tokens[2] ELSE <<>>
       IN outcome.ms = v.sign * v.m * Pow10(v.e + 3) * 1 * UnitSeconds(u)
  /\ Returns(<<"9", "0", " ", "s", "e", "c">>, 90000)
  /\ Returns(<<"1", ".", "5", " ", "m", "i", "n">>, 90000)
  /\ Returns(<<"4", "5">>, 45000)
  /\ Returns(<<"2", " ", "h", "r", "s">>, 7200000)

C7_Witness ==
  /\ pc = "parse_returned"
  /\ window = <<"2", " ", "h", "r", "s">>
  /\ outcome.ms = 7200000

-----------------------------------------------------------------------------
(* Properties of main                                                      *)

(* the clusters find_clusters returns that have at least min_cluster_size
   photos, in their order *)
RECURSIVE AtLeast(_, _)
AtLeast(cs, m) ==
  IF cs = <<>> THEN <<>>
  ELSE IF Len(Head(cs)) >= m THEN <<Head(cs)>> \o AtLeast(Tail(cs), m)
  ELSE AtLeast(Tail(cs), m)

Surviving ==
  LET parsed == ParseTimeDelta(window)
  IN IF parsed.kind = "timedelta"
     THEN AtLeast(FindClusters(photos, parsed.ms), min_cluster_size)
     ELSE <<>>

(* the calls the sink is to receive *)
ExpectedAlbums ==
  LET sv == Surviving
  IN IF sv = <<>> THEN <<>>
     ELSE IF create_sub_albums
     THEN [n \in 1..Len(sv) |->
             [path   |-> [parent  |-> album, cluster |-> n,
                          start   |-> sv[n][1].date \div 1000],
              photos |-> sv[n]]]
     ELSE << [path |-> [parent |-> album], photos |-> Flatten(sv)] >>

(* C8: the sink receives, in order, one call per surviving cluster with the
   path "<album>/Cluster n (<start of the cluster, to the second>)" and that
   cluster's photos (sub-album mode), or one call with all surviving clusters
   concatenated (single-album mode); at every moment the calls made are a
   prefix of these, and when main has ended they are all of them; no call is
   made when the window does not parse or no cluster survives. *)
C8_Routing ==
  LET expected == ExpectedAlbums
  IN /\ Len(albums) <= Len(expected)
     /\ albums = SubSeq(expected, 1, Len(albums))
     /\ pc = "main_route" => clusters = Surviving
     /\ pc = "main_exit" => albums = expected

(* two sub-albums made while a third cluster-to-be was too small *)
C8_Witness ==
  /\ pc = "main_exit" /\ create_sub_albums /\ Len(albums) = 2
  /\ min_cluster_size = 2
  /\ albums[2].path.start > albums[1].path.start

C8_WitnessSingle ==
  /\ pc = "main_exit" /\ ~create_sub_albums /\ Len(albums) = 1
  /\ Len(clusters) = 2

C8_WitnessFiltered ==
  /\ pc = "main_exit" /\ albums = <<>> /\ exit_status = "zero"
  /\ FindClusters(photos, time_window) # <<>>

C8_WitnessUnparsed ==
  /\ pc = "main_exit" /\ albums = <<>> /\ exit_status = "nonzero"

====
